---- MODULE Spec2Model ----
(***************************************************************************)
(* Subscription resolvers of packages/api (subscribe, unsubscribe,         *)
(* updateSubscription, subscriptions, feeds, scanFeeds) as a state machine *)
(* over the subscriptions table and the feed catalog.                      *)
(* Every await of a resolver is one step, so concurrent requests           *)
(* interleave exactly where the event loop lets them.                      *)
(***************************************************************************)
EXTENDS Integers, Sequences, FiniteSets, TLC

(* ---------------------------------------------------------------- bounds *)
\* number of requests issued in one behaviour of Spec
MaxCalls == 2
\* user u1 starts with MAX_RSS_SUBSCRIPTIONS - k ACTIVE RSS rows, k in 0..MaxSlack
MaxSlack == 2
\* an updateSubscription input of SpecUpdate supplies at most this many fields
MaxSupplied == 2
\* the feed catalog holds 0..MaxCatalog entries
MaxCatalog == 25
\* the table a listing meets holds 0..MaxRows rows
MaxRows == 2

(* ------------------------------------------------------------- constants *)
MAX_RSS_SUBSCRIPTIONS == 150

NULL == "null"
UNDEF == "undefined"
ACTIVE == "ACTIVE"
UNSUBSCRIBED == "UNSUBSCRIBED"
RSS == "RSS"
NEWSLETTER == "NEWSLETTER"

Users == {"u1", "u2"}
\* "A" and "B" are feeds; "A2" is a second address of feed "A"
Urls == {"A", "B", "A2"}
Calls == 1..MaxCalls

(* ------------------------------------------------------------ JS helpers *)
\* x || undefined, x ? .. : undefined : an empty string, null and undefined are falsy
Truthy(x) == x \notin {UNDEF, NULL, ""}
\* x ?? undefined : only null and undefined are nullish
Nullish(x) == x \in {UNDEF, NULL}
OrNull(x) == IF Truthy(x) THEN x ELSE NULL
CoalesceNull(x) == IF Nullish(x) THEN NULL ELSE x
\* new Date(input): the input's date string becomes a timestamp
ParseDate(s) == CASE s = "2024-01-01" -> "t1"
                  [] s = "2024-01-02" -> "t2"
                  [] OTHER -> "invalid"

(* ----------------------------------------------------------------- state *)
VARIABLES
  store,       \* the subscriptions table: store[i] is the row whose id is i
  baseActive,  \* per user: ACTIVE RSS rows on feeds outside Urls, never touched here
  call,        \* per request: its resolver, arguments, position and locals
  started,     \* number of requests issued so far
  tasks,       \* fetch-schedule requests delivered by enqueueRssFeedFetch
  observed,    \* what a scenario has seen so far: in SpecUpdate the last updateSubscription
               \* request and the table it met, in SpecPaging the pages a client was handed
  catalog      \* the feed search index: its entries in the order searchFeeds returns them

vars == <<store, baseActive, call, started, tasks, observed, catalog>>

\* ids a request may name: the prior row's and one per request that may insert a row
Ids == 1..(MaxCalls + 1)

NoRow == [id |-> 0, user |-> NULL, type |-> NULL, url |-> NULL, name |-> NULL,
          description |-> NULL, status |-> NULL, lastFetchedAt |-> NULL,
          lastFetchedChecksum |-> NULL, scheduledAt |-> NULL,
          autoAddToLibrary |-> NULL, isPrivate |-> NULL]

NoFeed == [title |-> NULL, url |-> NULL, description |-> NULL]

NoUpdate == [id |-> 0, name |-> UNDEF, description |-> UNDEF, lastFetchedAt |-> UNDEF,
             lastFetchedChecksum |-> UNDEF, status |-> UNDEF, scheduledAt |-> UNDEF,
             autoAddToLibrary |-> UNDEF, isPrivate |-> UNDEF]

NoResult == [kind |-> "none", code |-> NULL, row |-> NoRow]

Success(row) == [kind |-> "success", code |-> NULL, row |-> row]
Failure(code) == [kind |-> "error", code |-> code, row |-> NoRow]

NoObservation == [uid |-> NULL, input |-> NoUpdate, before |-> <<>>]

Idle == [op |-> "none", pc |-> "idle", uid |-> NULL, url |-> NULL,
         autoAddToLibrary |-> UNDEF, isPrivate |-> UNDEF,
         subscriptionId |-> 0, name |-> UNDEF,
         existing |-> NoRow, feed |-> NoFeed, inserted |-> "none",
         subscription |-> NoRow, delegated |-> 0,
         threw |-> "none", result |-> NoResult]

\* count(*) ... where user_id = $5 and type = 'RSS' and status = 'ACTIVE'
ActiveRssCount(tbl, uid) ==
  baseActive[uid]
    + Cardinality({i \in 1..Len(tbl) :
                     tbl[i].user = uid /\ tbl[i].type = RSS /\ tbl[i].status = ACTIVE})

\* a feed u1 subscribed to, had fetched, and unsubscribed from before the behaviour starts
PriorRow ==
  [id |-> 1, user |-> "u1", type |-> RSS, url |-> "A", name |-> "Feed A",
   description |-> "about A", status |-> UNSUBSCRIBED, lastFetchedAt |-> "t1",
   lastFetchedChecksum |-> "c0ffee", scheduledAt |-> NULL,
   autoAddToLibrary |-> NULL, isPrivate |-> NULL]

\* u1 is a user at the edge of the quota, u2 one far from it
BaseActiveChoices(uid) ==
  IF uid = "u1"
  THEN (MAX_RSS_SUBSCRIPTIONS - MaxSlack)..MAX_RSS_SUBSCRIPTIONS
  ELSE {0}

Init ==
  /\ store \in {<<>>, <<PriorRow>>}
  /\ baseActive \in {b \in [Users -> 0..MAX_RSS_SUBSCRIPTIONS] :
                        \A uid \in Users : b[uid] \in BaseActiveChoices(uid)}
  /\ call = [c \in Calls |-> Idle]
  /\ started = 0
  /\ tasks = {}
  /\ observed = NoObservation
  /\ catalog = <<>>

\* the next request arrives
Arrives(c) == c \in Calls /\ c = started + 1

\* a request returns: its result is fixed from here on
Return(c, res) ==
  call' = [call EXCEPT ![c].pc = "done", ![c].result = res]

\* a collaborator threw: the resolver's catch block decides the error code
Catch(c, message, code) ==
  call' = [call EXCEPT ![c].pc = "done", ![c].threw = message, ![c].result = Failure(code)]

(* ------------------------------------------------------------- subscribe *)
BAD_REQUEST == "BAD_REQUEST"
NOT_FOUND == "NOT_FOUND"
ALREADY_SUBSCRIBED == "ALREADY_SUBSCRIBED"
EXCEEDED_MAX_SUBSCRIPTIONS == "EXCEEDED_MAX_SUBSCRIPTIONS"

\* what a subscribe input may carry for autoAddToLibrary and isPrivate
SubscribeOptions == {[autoAddToLibrary |-> "true", isPrivate |-> UNDEF]}

\* parseFeed(url) when the address serves a feed: the feed's own title and url
FeedOf(url) ==
  CASE url = "A"  -> [title |-> "Feed A", url |-> "A", description |-> "about A"]
    [] url = "A2" -> [title |-> "Feed A", url |-> "A", description |-> "about A"]
    [] url = "B"  -> [title |-> "Feed B", url |-> "B", description |-> ""]

\* mutant: the lookup only sees subscriptions that are not active
FindExistingInactive(tbl, uid, url) ==
  {tbl[i] : i \in {j \in 1..Len(tbl) :
                     /\ tbl[j].url = url /\ tbl[j].user = uid /\ tbl[j].type = RSS
                     /\ tbl[j].status # ACTIVE}}

\* findOneBy({url: input.url, user: {id: uid}, type: Rss}): the rows it may return
FindExisting(tbl, uid, url) ==
  {tbl[i] : i \in {j \in 1..Len(tbl) :
                     tbl[j].url = url /\ tbl[j].user = uid /\ tbl[j].type = RSS}}

\* mutant: re-subscribing starts the subscription's fetch history afresh
ResubscribedAfresh(existing) ==
  [existing EXCEPT !.status = ACTIVE, !.lastFetchedAt = NULL,
                   !.lastFetchedChecksum = NULL]

\* mutant: re-subscribing writes a status the enum does not have
ResubscribedAsSubscribed(existing) == [existing EXCEPT !.status = "SUBSCRIBED"]

\* the entity handed to save(): the copy read at lookup with status set to Active
Resubscribed(existing) == [existing EXCEPT !.status = ACTIVE]

\* save(entity) of an entity whose id is in the table: the row takes the entity's columns
SaveEntity(tbl, entity) == [tbl EXCEPT ![entity.id] = entity]

\* mutant: the catch block reports every error alike
SubscribeCatchAll(message) == BAD_REQUEST

\* the catch block of subscribeResolver
SubscribeCatchCode(message) ==
  IF message = "Status code 404" THEN NOT_FOUND ELSE BAD_REQUEST

\* the row the insert statement adds; status, dates and checksum take the column defaults
NewRssRow(tbl, uid, feed, autoAdd, isPrivate) ==
  [id |-> Len(tbl) + 1, user |-> uid, type |-> RSS, url |-> feed.url,
   name |-> feed.title, description |-> OrNull(feed.description),
   status |-> ACTIVE, lastFetchedAt |-> NULL, lastFetchedChecksum |-> NULL,
   scheduledAt |-> NULL, autoAddToLibrary |-> CoalesceNull(autoAdd),
   isPrivate |-> CoalesceNull(isPrivate)]

\* mutant: the insert compares the count with <= instead of <
InsertResultsOffByOne(tbl, uid, feed, autoAdd, isPrivate) ==
  IF ActiveRssCount(tbl, uid) <= MAX_RSS_SUBSCRIPTIONS
  THEN <<NewRssRow(tbl, uid, feed, autoAdd, isPrivate)>>
  ELSE <<>>

\* insert ... select ... where user_id = $5 and type = 'RSS' and status = 'ACTIVE'
\* having count(*) < $9 returning *: the rows returned
InsertResults(tbl, uid, feed, autoAdd, isPrivate) ==
  IF ActiveRssCount(tbl, uid) < MAX_RSS_SUBSCRIPTIONS
  THEN <<NewRssRow(tbl, uid, feed, autoAdd, isPrivate)>>
  ELSE <<>>

\* mutant: the request never carries what was fetched before
FetchTaskWithoutHistory(c, uid, url, subscriptionId, fetchedDate, checksum) ==
  [call |-> c, userId |-> uid, url |-> url, subscriptionId |-> subscriptionId,
   fetchedDate |-> NULL, checksum |-> NULL]

\* the request handed to enqueueRssFeedFetch (one subscription per request here)
FetchTask(c, uid, url, subscriptionId, fetchedDate, checksum) ==
  [call |-> c, userId |-> uid, url |-> url, subscriptionId |-> subscriptionId,
   fetchedDate |-> fetchedDate, checksum |-> checksum]

\* lines 178-200, 224: the request arrives, the existing subscription is looked up,
\* and the resolver returns or goes on to its next await
SubscribeLookup(c, uid, url, autoAdd, isPrivate) ==
  /\ Arrives(c)
  /\ started' = c
  /\ LET req == [Idle EXCEPT !.op = "subscribe", !.uid = uid, !.url = url,
                             !.autoAddToLibrary = autoAdd, !.isPrivate = isPrivate]
         found == FindExisting(store, uid, url)
     IN \/ \E existing \in found :
             call' = [call EXCEPT ![c] =
               IF existing.status = ACTIVE
               THEN [req EXCEPT !.existing = existing, !.pc = "done",
                                !.result = Failure(ALREADY_SUBSCRIBED)]
               ELSE [req EXCEPT !.existing = existing, !.pc = "save"]]
        \/ /\ found = {}
           /\ call' = [call EXCEPT ![c] = [req EXCEPT !.pc = "parseFeed"]]
        \/ \* the query fails
           call' = [call EXCEPT ![c] =
               [req EXCEPT !.pc = "done", !.threw = "query failed",
                           !.result = Failure(SubscribeCatchCode("query failed"))]]
  /\ UNCHANGED <<store, baseActive, tasks, observed, catalog>>

\* lines 203-206: re-subscribe
SubscribeSave(c) ==
  /\ call[c].op = "subscribe" /\ call[c].pc = "save"
  /\ \/ /\ store' = SaveEntity(store, Resubscribed(call[c].existing))
        /\ call' = [call EXCEPT ![c].pc = "enqueueResub",
                                ![c].subscription = Resubscribed(call[c].existing)]
     \/ /\ Catch(c, "query failed", SubscribeCatchCode("query failed"))
        /\ UNCHANGED store
  /\ UNCHANGED <<baseActive, started, tasks, observed, catalog>>

\* lines 208-222: the fetch task of the re-activated subscription, then the result
SubscribeEnqueueResub(c) ==
  /\ call[c].op = "subscribe" /\ call[c].pc = "enqueueResub"
  /\ LET updatedSubscription == call[c].subscription
     IN \/ /\ tasks' = tasks \cup
                  {FetchTask(c, call[c].uid, call[c].url, updatedSubscription.id,
                             OrNull(updatedSubscription.lastFetchedAt),
                             OrNull(updatedSubscription.lastFetchedChecksum))}
           /\ Return(c, Success(updatedSubscription))
        \/ /\ Catch(c, "enqueue failed", SubscribeCatchCode("enqueue failed"))
           /\ UNCHANGED tasks
  /\ UNCHANGED <<store, baseActive, started, observed, catalog>>

\* lines 227-232: validate rss feed
SubscribeParseFeed(c) ==
  /\ call[c].op = "subscribe" /\ call[c].pc = "parseFeed"
  /\ \/ call' = [call EXCEPT ![c].feed = FeedOf(call[c].url), ![c].pc = "insert"]
     \/ \* parseFeed resolves to nothing
        Return(c, Failure(NOT_FOUND))
     \/ \E message \in {"Status code 404", "socket hang up"} :
          Catch(c, message, SubscribeCatchCode(message))
  /\ UNCHANGED <<store, baseActive, started, tasks, observed, catalog>>

\* lines 235-258: the conditional insert, one statement
SubscribeInsert(c) ==
  /\ call[c].op = "subscribe" /\ call[c].pc = "insert"
  /\ \/ LET results == InsertResults(store, call[c].uid, call[c].feed,
                                     call[c].autoAddToLibrary, call[c].isPrivate)
        IN IF Len(results) = 0
           THEN /\ call' = [call EXCEPT ![c].pc = "done", ![c].inserted = "empty",
                                        ![c].result = Failure(EXCEEDED_MAX_SUBSCRIPTIONS)]
                /\ UNCHANGED store
           ELSE /\ store' = store \o results
                /\ call' = [call EXCEPT ![c].pc = "enqueueNew", ![c].inserted = "row",
                                        ![c].subscription = results[1]]
     \/ /\ Catch(c, "query failed", SubscribeCatchCode("query failed"))
        /\ UNCHANGED store
  /\ UNCHANGED <<baseActive, started, tasks, observed, catalog>>

\* lines 260-275: the fetch task of the new subscription, then the result
SubscribeEnqueueNew(c) ==
  /\ call[c].op = "subscribe" /\ call[c].pc = "enqueueNew"
  /\ LET newSubscription == call[c].subscription
     IN \/ /\ tasks' = tasks \cup
                  {FetchTask(c, call[c].uid, call[c].url, newSubscription.id, NULL, NULL)}
           /\ Return(c, Success(newSubscription))
        \/ /\ Catch(c, "enqueue failed", SubscribeCatchCode("enqueue failed"))
           /\ UNCHANGED tasks
  /\ UNCHANGED <<store, baseActive, started, observed, catalog>>

Subscribe ==
  \/ \E c \in Calls, uid \in Users, url \in Urls, opt \in SubscribeOptions :
       SubscribeLookup(c, uid, url, opt.autoAddToLibrary, opt.isPrivate)
  \/ \E c \in Calls : SubscribeSave(c)
  \/ \E c \in Calls : SubscribeEnqueueResub(c)
  \/ \E c \in Calls : SubscribeParseFeed(c)
  \/ \E c \in Calls : SubscribeInsert(c)
  \/ \E c \in Calls : SubscribeEnqueueNew(c)

(* ---------------------------------------------------- updateSubscription *)
\* the values an updateSubscription input may carry, field by field
UpdateFields == {"name", "description", "lastFetchedAt", "lastFetchedChecksum",
                 "status", "scheduledAt", "autoAddToLibrary", "isPrivate"}

\* the values of the SubscriptionStatus input enum
SubscriptionStatusValues == {ACTIVE, UNSUBSCRIBED}

InputValues(f) ==
  CASE f = "name" -> {"", "renamed"}
    [] f = "description" -> {"", "edited"}
    [] f = "lastFetchedAt" -> {"2024-01-01"}
    [] f = "lastFetchedChecksum" -> {"", "c0ffee"}
    [] f = "status" -> SubscriptionStatusValues
    [] f = "scheduledAt" -> {"2024-01-02"}
    [] f = "autoAddToLibrary" -> {"true", "false"}
    [] f = "isPrivate" -> {"true", "false"}

\* the inputs that supply the fields of S, each with one of its values
InputsSupplying(S) ==
  {[f \in UpdateFields |-> IF f \in S THEN g[f] ELSE UNDEF] :
     g \in {h \in [S -> UNION {InputValues(f) : f \in UpdateFields}] :
              \A f \in S : h[f] \in InputValues(f)}}

\* the inputs that supply at most n fields
UpdateInputs(n) ==
  UNION {InputsSupplying(S) : S \in {T \in SUBSET UpdateFields : Cardinality(T) <= n}}

\* mutant: the boolean fields go through || like the strings, so false is dropped
UpdateEntityDroppingFalse(id, in) ==
  [id |-> id,
   name |-> IF Truthy(in.name) THEN in.name ELSE UNDEF,
   description |-> IF Truthy(in.description) THEN in.description ELSE UNDEF,
   lastFetchedAt |-> IF Truthy(in.lastFetchedAt) THEN ParseDate(in.lastFetchedAt) ELSE UNDEF,
   lastFetchedChecksum |->
     IF Truthy(in.lastFetchedChecksum) THEN in.lastFetchedChecksum ELSE UNDEF,
   status |-> IF Truthy(in.status) THEN in.status ELSE UNDEF,
   scheduledAt |-> IF Truthy(in.scheduledAt) THEN ParseDate(in.scheduledAt) ELSE UNDEF,
   autoAddToLibrary |-> IF in.autoAddToLibrary = "true" THEN "true" ELSE UNDEF,
   isPrivate |-> IF in.isPrivate = "true" THEN "true" ELSE UNDEF]

\* lines 312-326: the partial entity handed to save(); undefined properties are skipped
UpdateEntity(id, in) ==
  [id |-> id,
   name |-> IF Truthy(in.name) THEN in.name ELSE UNDEF,
   description |-> IF Truthy(in.description) THEN in.description ELSE UNDEF,
   lastFetchedAt |-> IF Truthy(in.lastFetchedAt) THEN ParseDate(in.lastFetchedAt) ELSE UNDEF,
   lastFetchedChecksum |->
     IF Truthy(in.lastFetchedChecksum) THEN in.lastFetchedChecksum ELSE UNDEF,
   status |-> IF Truthy(in.status) THEN in.status ELSE UNDEF,
   scheduledAt |-> IF Truthy(in.scheduledAt) THEN ParseDate(in.scheduledAt) ELSE UNDEF,
   autoAddToLibrary |-> IF Nullish(in.autoAddToLibrary) THEN UNDEF ELSE in.autoAddToLibrary,
   isPrivate |-> IF Nullish(in.isPrivate) THEN UNDEF ELSE in.isPrivate]

\* save(partial) on a loaded row: every defined property replaces the column
MergeRow(row, entity) ==
  [f \in DOMAIN row |->
     IF f \in UpdateFields /\ entity[f] # UNDEF THEN entity[f] ELSE row[f]]

\* mutant: the re-read is not scoped to the caller
FindAnyOwner(tbl, id, uid) ==
  {tbl[i] : i \in {j \in 1..Len(tbl) : tbl[j].id = id}}

\* findOneByOrFail({id, user: {id: uid}}): the rows it may return
FindOwned(tbl, id, uid) ==
  {tbl[i] : i \in {j \in 1..Len(tbl) : tbl[j].id = id /\ tbl[j].user = uid}}

\* lines 308-332 inside authTrx: the table as the transaction leaves it before its
\* re-read; save() of an id the table does not hold inserts a row without user or
\* name, which the table refuses
SavedInTrx(tbl, entity) ==
  IF entity.id \in 1..Len(tbl)
  THEN [tbl EXCEPT ![entity.id] = MergeRow(tbl[entity.id], entity)]
  ELSE tbl

\* mutant: a transaction whose callback throws keeps what it wrote
AuthTrxKeepsWrites(tbl, inTrx) == inTrx

\* authTrx(callback) when the callback throws: the table as the transaction found
\* it, nothing the callback wrote is committed
AuthTrxAborted(tbl, inTrx) == tbl

\* lines 297-343: the whole resolver; the transaction commits only if its callback
\* returns, so a failed save or a failed re-read leaves the table as it was
UpdateSubscription(c, uid, id, in) ==
  /\ Arrives(c)
  /\ started' = c
  /\ LET req == [Idle EXCEPT !.op = "update", !.uid = uid]
         entity == UpdateEntity(id, in)
         inTrx == SavedInTrx(store, entity)
         found == IF id \in 1..Len(store) THEN FindOwned(inTrx, id, uid) ELSE {}
     IN \/ \E row \in found :
             /\ store' = inTrx
             /\ call' = [call EXCEPT ![c] =
                  [req EXCEPT !.pc = "done", !.subscription = row,
                              !.result = Success(row)]]
        \/ /\ found = {}
           /\ store' = AuthTrxAborted(store, inTrx)
           /\ call' = [call EXCEPT ![c] =
                  [req EXCEPT !.pc = "done", !.threw = "EntityNotFoundError",
                              !.result = Failure(BAD_REQUEST)]]
        \/ \* the transaction fails for a reason of its own
           /\ store' = AuthTrxAborted(store, inTrx)
           /\ call' = [call EXCEPT ![c] =
                  [req EXCEPT !.pc = "done", !.threw = "query failed",
                              !.result = Failure(BAD_REQUEST)]]
  /\ UNCHANGED <<baseActive, tasks, catalog>>

\* the inputs drawn in Spec
LifecycleUpdateInputs == UpdateInputs(1)

Update ==
  \E c \in Calls, uid \in Users, id \in Ids, in \in LifecycleUpdateInputs :
    /\ UpdateSubscription(c, uid, id, in)
    /\ UNCHANGED observed

(* ----------------------------------------------------------- unsubscribe *)
\* what an unsubscribe request may carry as name; 0 as subscriptionId is an id that
\* is not supplied
NameInputs == {UNDEF, "Feed B"}

\* mutant: the name is used whenever one is given, the id only without a name
UnsubscribeMatchesNameFirst(tbl, uid, subscriptionId, name) ==
  {tbl[i] : i \in {j \in 1..Len(tbl) :
     /\ tbl[j].user = uid
     /\ IF Nullish(name)
        THEN subscriptionId = 0 \/ tbl[j].id = subscriptionId
        ELSE tbl[j].name = name}}

\* lines 119-132: the rows the query may return; a where-property that is
\* undefined or null constrains nothing
UnsubscribeMatches(tbl, uid, subscriptionId, name) ==
  {tbl[i] : i \in {j \in 1..Len(tbl) :
     /\ tbl[j].user = uid
     /\ IF subscriptionId # 0
        THEN tbl[j].id = subscriptionId
        ELSE Nullish(name) \/ tbl[j].name = name}}

\* services/subscriptions unsubscribe(subscription): the row is marked unsubscribed
Unsubscribed(tbl, subscription) ==
  [tbl EXCEPT ![subscription.id].status = UNSUBSCRIBED]

\* lines 115-138: the request arrives and its target is resolved
UnsubscribeLookup(c, uid, subscriptionId, name) ==
  /\ Arrives(c)
  /\ started' = c
  /\ LET req == [Idle EXCEPT !.op = "unsubscribe", !.uid = uid,
                             !.subscriptionId = subscriptionId, !.name = name]
         found == UnsubscribeMatches(store, uid, subscriptionId, name)
     IN \/ \E subscription \in found :
             call' = [call EXCEPT ![c] =
               [req EXCEPT !.subscription = subscription, !.pc = "delegate"]]
        \/ /\ found = {}
           /\ call' = [call EXCEPT ![c] =
                [req EXCEPT !.pc = "done", !.result = Failure(NOT_FOUND)]]
        \/ call' = [call EXCEPT ![c] =
                [req EXCEPT !.pc = "done", !.threw = "query failed",
                            !.result = Failure(BAD_REQUEST)]]
  /\ UNCHANGED <<store, baseActive, tasks, observed, catalog>>

\* lines 140-144: a newsletter that names neither an unsubscribe mailbox nor an
\* unsubscribe url; the resolver logs it and goes on
NoUnsubscribeMethod(subscription) ==
  /\ subscription.type = NEWSLETTER
  /\ ~Truthy(subscription.unsubscribeMailTo)
  /\ ~Truthy(subscription.unsubscribeHttpUrl)

\* mutant: the subscription is returned as the delegate left it
UnsubscribeSuccessMarked(subscription) ==
  Success([subscription EXCEPT !.status = UNSUBSCRIBED])

\* lines 159-161: the result carries the subscription the query returned
UnsubscribeSuccess(subscription) == Success(subscription)

\* lines 140-167: the delegate runs, the event is tracked, then the subscription
\* read at lookup is returned
UnsubscribeDelegate(c) ==
  /\ call[c].op = "unsubscribe" /\ call[c].pc = "delegate"
  /\ LET subscription == call[c].subscription
         ran == [call[c] EXCEPT !.pc = "done", !.delegated = @ + 1]
     IN \/ /\ store' = Unsubscribed(store, subscription)
           /\ call' = [call EXCEPT ![c] =
                [ran EXCEPT !.result = UnsubscribeSuccess(subscription)]]
        \/ \* unsubscribe(subscription) throws
           /\ UNCHANGED store
           /\ call' = [call EXCEPT ![c] =
                [ran EXCEPT !.threw = "unsubscribe failed",
                            !.result = Failure(BAD_REQUEST)]]
        \/ \* analytics.track throws once the delegate has run
           /\ store' = Unsubscribed(store, subscription)
           /\ call' = [call EXCEPT ![c] =
                [ran EXCEPT !.threw = "track failed",
                            !.result = Failure(BAD_REQUEST)]]
  /\ UNCHANGED <<baseActive, started, tasks, observed, catalog>>

Unsubscribe ==
  \/ \E c \in Calls, uid \in Users, subscriptionId \in {0} \cup Ids, name \in NameInputs :
       UnsubscribeLookup(c, uid, subscriptionId, name)
  \/ \E c \in Calls : UnsubscribeDelegate(c)

(* ----------------------------------------------------------------- system *)
Next == Subscribe \/ Update \/ Unsubscribe

Spec == Init /\ [][Next]_vars

(* ------------------------------------- updateSubscription, field by field *)
\* SpecUpdate: one updateSubscription request, with any input that supplies up to
\* MaxSupplied fields, meets a table of two rows
\* a table holding the prior row re-activated and a row of u2
UpdateTable ==
  <<[PriorRow EXCEPT !.status = ACTIVE],
    [id |-> 2, user |-> "u2", type |-> RSS, url |-> "B", name |-> "Feed B",
     description |-> NULL, status |-> ACTIVE, lastFetchedAt |-> NULL,
     lastFetchedChecksum |-> NULL, scheduledAt |-> NULL,
     autoAddToLibrary |-> "true", isPrivate |-> "false"]>>

InitUpdate ==
  /\ store \in {<<PriorRow>>, UpdateTable}
  /\ baseActive = [uid \in Users |-> 0]
  /\ call = [c \in Calls |-> Idle]
  /\ started = 0
  /\ tasks = {}
  /\ observed = NoObservation
  /\ catalog = <<>>

\* the inputs drawn in SpecUpdate
AllUpdateInputs == UpdateInputs(MaxSupplied)

UpdateAnyFields ==
  \E c \in Calls, uid \in Users, id \in Ids, in \in AllUpdateInputs :
    /\ started = 0
    /\ UpdateSubscription(c, uid, id, in)
    /\ observed' = [uid |-> uid, input |-> [id |-> id] @@ in, before |-> store]

SpecUpdate == InitUpdate /\ [][UpdateAnyFields]_vars

(* ------------------------------------------- unsubscribe, newsletters too *)
\* SpecUnsubscribe: unsubscribe requests meet a table that holds newsletters
\* a row with the two newsletter-only columns
WithUnsubscribeMethod(row, mailTo, httpUrl) ==
  row @@ [unsubscribeMailTo |-> mailTo, unsubscribeHttpUrl |-> httpUrl]

\* a newsletter that can only be cancelled at the provider, a newsletter with an
\* unsubscribe mailbox, and a feed of u2
NewsletterTable ==
  <<WithUnsubscribeMethod(
      [NoRow EXCEPT !.id = 1, !.user = "u1", !.type = NEWSLETTER, !.name = "Weekly",
                    !.status = ACTIVE], NULL, NULL),
    WithUnsubscribeMethod(
      [NoRow EXCEPT !.id = 2, !.user = "u1", !.type = NEWSLETTER, !.name = "Feed B",
                    !.status = ACTIVE], "unsubscribe@letters.example", NULL),
    WithUnsubscribeMethod(
      [NoRow EXCEPT !.id = 3, !.user = "u2", !.type = RSS, !.url = "B",
                    !.name = "Feed B", !.status = ACTIVE], NULL, NULL)>>

InitUnsubscribe ==
  /\ store = NewsletterTable
  /\ baseActive = [uid \in Users |-> 0]
  /\ call = [c \in Calls |-> Idle]
  /\ started = 0
  /\ tasks = {}
  /\ observed = NoObservation
  /\ catalog = <<>>

SpecUnsubscribe == InitUnsubscribe /\ [][Unsubscribe]_vars

(* ------------------------------------------------------------------ feeds *)
\* an optional Int input is <<>> when unset and <<n>> when it carries n
\* the decimal strings Number() and String() meet here
Numerals == (-1)..(MaxCatalog + 1)

\* isNaN(Number(s)) of a non-empty string
IsNaN(s) == \A n \in Numerals : ToString(n) # s

\* Number(s) of a decimal string
Number(s) == CHOOSE n \in Numerals : ToString(n) = s

\* String(n)
String(n) == ToString(n)

\* line 351: input.after || ''
StartCursor(after) == IF Truthy(after) THEN after ELSE ""

\* lines 352-353
Start(after) ==
  LET startCursor == StartCursor(after)
  IN IF startCursor # "" /\ ~IsNaN(startCursor) THEN Number(startCursor) ELSE 0

Min(a, b) == IF a < b THEN a ELSE b

\* line 354: Math.min(input.first || 10, 100); 0 is falsy like an unset input
First(first) ==
  Min(IF first = <<>> \/ first[1] = 0 THEN 10 ELSE first[1], 100)

\* feedRepository.searchFeeds(query, limit, offset): limit entries from offset on,
\* and the number of entries that match
SearchFeeds(cat, limit, offset) ==
  [feeds |-> SubSeq(cat, offset + 1, Min(offset + limit, Len(cat))),
   count |-> Len(cat)]

\* feeds.pop()
Pop(feeds) == IF Len(feeds) = 0 THEN feeds ELSE SubSeq(feeds, 1, Len(feeds) - 1)

\* mutant: the cursor counts the extra entry too
EndCursorWithExtra(start, returned, hasNextPage) == String(start + returned)

\* line 365
EndCursor(start, returned, hasNextPage) ==
  String(start + returned - (IF hasNextPage THEN 1 ELSE 0))

\* lines 364-387: the page built from what the search returned
FeedsSuccess(found, after, first) ==
  LET start == Start(after)
      hasNextPage == Len(found.feeds) > First(first)
      endCursor == EndCursor(start, Len(found.feeds), hasNextPage)
      feeds == IF hasNextPage THEN Pop(found.feeds) ELSE found.feeds
  IN [kind |-> "success", code |-> NULL,
      edges |-> [i \in 1..Len(feeds) |-> [node |-> feeds[i], cursor |-> endCursor]],
      pageInfo |-> [hasPreviousPage |-> start > 0, hasNextPage |-> hasNextPage,
                    startCursor |-> StartCursor(after), endCursor |-> endCursor,
                    totalCount |-> found.count]]

\* lines 349-395: the whole resolver, its one await included; the search rejects a
\* negative limit or offset, and may fail for a reason of its own
Feeds(c, after, first) ==
  LET limit == First(first) + 1
      offset == Start(after)
      req == [op |-> "feeds", pc |-> "done", after |-> after, first |-> first,
              asked |-> [limit |-> limit, offset |-> offset],
              threw |-> "none", result |-> NoResult]
  IN \/ /\ limit >= 0 /\ offset >= 0
        /\ call' = [call EXCEPT ![c] =
             [req EXCEPT !.result =
                FeedsSuccess(SearchFeeds(catalog, limit, offset), after, first)]]
     \/ call' = [call EXCEPT ![c] =
             [req EXCEPT !.threw = "search failed", !.result = Failure(BAD_REQUEST)]]

\* what a feeds input may carry as after and as first
AfterInputs == {UNDEF, "", "abc"} \cup {String(n) : n \in Numerals}
FirstInputs == {<<>>, <<10>>, <<100>>, <<101>>} \cup {<<n>> : n \in (-2)..3}

\* SpecFeeds: one feeds request meets a catalog of any size up to MaxCatalog
InitFeeds ==
  /\ store = <<>>
  /\ baseActive = [uid \in Users |-> 0]
  /\ call = [c \in Calls |-> Idle]
  /\ started = 0
  /\ tasks = {}
  /\ observed = NoObservation
  /\ catalog \in {[i \in 1..n |-> i] : n \in 0..MaxCatalog}

FeedsOnce ==
  \E c \in Calls, after \in AfterInputs, first \in FirstInputs :
    /\ Arrives(c) /\ started = 0
    /\ started' = c
    /\ Feeds(c, after, first)
    /\ UNCHANGED <<store, baseActive, tasks, observed, catalog>>

SpecFeeds == InitFeeds /\ [][FeedsOnce]_vars

\* SpecPaging: a client asks for the first page and then follows endCursor for as
\* long as a page reports hasNextPage, with one page size throughout
PagingFirsts == {<<>>, <<0>>, <<1>>, <<2>>, <<3>>, <<10>>, <<100>>}

InitPaging ==
  /\ store = <<>>
  /\ baseActive = [uid \in Users |-> 0]
  /\ call = [c \in Calls |-> Idle]
  /\ started = 0
  /\ tasks = {}
  /\ catalog \in {[i \in 1..n |-> i] : n \in 0..MaxCatalog}
  /\ observed \in {[first |-> first, after |-> UNDEF, more |-> TRUE, pages |-> 0,
                     visited |-> <<>>] : first \in PagingFirsts}

\* the next request of the client; a page that arrives is appended to what the
\* client has, a request that fails is asked again
FeedsTurn ==
  /\ observed.more
  /\ started' = 1
  /\ Feeds(1, observed.after, observed.first)
  /\ observed' =
       LET page == call'[1].result
       IN IF page.kind = "success"
          THEN [observed EXCEPT
                  !.after = page.pageInfo.endCursor,
                  !.more = page.pageInfo.hasNextPage,
                  !.pages = @ + 1,
                  !.visited = @ \o [i \in 1..Len(page.edges) |-> page.edges[i].node]]
          ELSE observed
  /\ UNCHANGED <<store, baseActive, tasks, catalog>>

\* a page that arrives
FeedsPageArrives == FeedsTurn /\ call'[1].result.kind = "success"

\* the search collaborator answers in the end
SpecPaging == InitPaging /\ [][FeedsTurn]_vars /\ WF_vars(FeedsPageArrives)

(* ---------------------------------------------------------- subscriptions *)
\* what a subscriptions request may carry as type and as sort; a request without
\* sort reads sort?.by and sort?.order as undefined
TypeInputs == {UNDEF, RSS, NEWSLETTER}
SortInputs ==
  {[by |-> by, order |-> order] :
     by \in {UNDEF, "UPDATED_TIME", "SAVED_AT"},
     order \in {UNDEF, "ASCENDING", "DESCENDING"}}

\* lines 58-59
SortBy(sort) == IF sort.by = "UPDATED_TIME" THEN "lastFetchedAt" ELSE "createdAt"

\* line 60
SortOrder(sort) == IF sort.order = "ASCENDING" THEN "ASC" ELSE "DESC"

\* mutant: without a type the listing takes newsletters of any status
WhereAnyNewsletter(row, uid, type) ==
  /\ row.user = uid
  /\ IF Truthy(type) /\ type = NEWSLETTER
     THEN row.type = type /\ row.status = ACTIVE
     ELSE IF Truthy(type) /\ type = RSS
     THEN row.type = type
     ELSE row.type = NEWSLETTER \/ row.type = RSS

\* lines 62-89: the where clause the query builder ends up with
Where(row, uid, type) ==
  /\ row.user = uid
  /\ IF Truthy(type) /\ type = NEWSLETTER
     THEN row.type = type /\ row.status = ACTIVE
     ELSE IF Truthy(type) /\ type = RSS
     THEN row.type = type
     ELSE \/ row.type = NEWSLETTER /\ row.status = ACTIVE
          \/ row.type = RSS

\* the order of the timestamps and of the status values in the table
TimeRank(t) == CASE t = "t1" -> 1 [] t = "t2" -> 2 [] t = "t3" -> 3
StatusRank(status) == IF status = ACTIVE THEN 1 ELSE 2

\* mutant: nulls are placed as the table places them by default, first when descending
KeyBeforeNullsDefault(a, b, sortBy, sortOrder) ==
  IF sortOrder = "ASC"
  THEN a[sortBy] # NULL
         /\ (b[sortBy] = NULL \/ TimeRank(a[sortBy]) < TimeRank(b[sortBy]))
  ELSE b[sortBy] # NULL
         /\ (a[sortBy] = NULL \/ TimeRank(a[sortBy]) > TimeRank(b[sortBy]))

\* line 93: addOrderBy(sortBy, sortOrder, 'NULLS LAST'): a sorts strictly before b
KeyBefore(a, b, sortBy, sortOrder) ==
  /\ a[sortBy] # NULL
  /\ \/ b[sortBy] = NULL
     \/ IF sortOrder = "ASC"
        THEN TimeRank(a[sortBy]) < TimeRank(b[sortBy])
        ELSE TimeRank(a[sortBy]) > TimeRank(b[sortBy])

\* lines 92-93: orderBy(status, 'ASC') then the sort key: a sorts strictly before b
OrderedBefore(a, b, sortBy, sortOrder) ==
  \/ StatusRank(a.status) < StatusRank(b.status)
  \/ /\ a.status = b.status
     /\ KeyBefore(a, b, sortBy, sortOrder)

\* lines 91-94: getMany(): the selected rows in any order the order-by clause
\* allows (rows it does not tell apart come in either order)
GetMany(tbl, uid, type, sort) ==
  LET selected == {i \in 1..Len(tbl) : Where(tbl[i], uid, type)}
      n == Cardinality(selected)
      orders == {f \in [1..n -> selected] :
                   /\ \A i, j \in 1..n : i # j => f[i] # f[j]
                   /\ \A i, j \in 1..n :
                        i < j => ~OrderedBefore(tbl[f[j]], tbl[f[i]],
                                                SortBy(sort), SortOrder(sort))}
  IN {[i \in 1..n |-> tbl[f[i]]] : f \in orders}

\* lines 56-105: the whole resolver
Subscriptions(c, uid, type, sort) ==
  LET req == [op |-> "subscriptions", pc |-> "done", uid |-> uid, type |-> type,
              sort |-> sort, threw |-> "none", result |-> NoResult]
  IN \/ \E subscriptions \in GetMany(store, uid, type, sort) :
          call' = [call EXCEPT ![c] =
            [req EXCEPT !.result = [kind |-> "success", code |-> NULL,
                                    subscriptions |-> subscriptions]]]
     \/ \* the query fails
        call' = [call EXCEPT ![c] =
            [req EXCEPT !.threw = "query failed", !.result = Failure(BAD_REQUEST)]]

\* SpecListing: one subscriptions request meets a table of up to MaxRows rows,
\* created one after the other
ListedRow(id, uid, type, status, lastFetchedAt) ==
  [NoRow EXCEPT !.id = id, !.user = uid, !.type = type, !.status = status,
                !.name = "Feed B", !.lastFetchedAt = lastFetchedAt]
    @@ [createdAt |-> IF id = 1 THEN "t1" ELSE IF id = 2 THEN "t2" ELSE "t3"]

\* the rows a table may hold: every kind of row of u1, and two rows of u2 that
\* every filter would take if it looked at no owner
RowKinds ==
  [user : {"u1"}, type : {RSS, NEWSLETTER}, status : {ACTIVE, UNSUBSCRIBED},
   lastFetchedAt : {NULL, "t1", "t2"}]
    \cup {[user |-> "u2", type |-> RSS, status |-> ACTIVE, lastFetchedAt |-> "t1"],
          [user |-> "u2", type |-> NEWSLETTER, status |-> ACTIVE,
           lastFetchedAt |-> NULL]}

ListedTables ==
  UNION {{[i \in 1..n |-> ListedRow(i, k[i].user, k[i].type, k[i].status,
                                     k[i].lastFetchedAt)] :
            k \in [1..n -> RowKinds]} :
         n \in 0..MaxRows}

InitListing ==
  /\ store \in ListedTables
  /\ baseActive = [uid \in Users |-> 0]
  /\ call = [c \in Calls |-> Idle]
  /\ started = 0
  /\ tasks = {}
  /\ observed = NoObservation
  /\ catalog = <<>>

SubscriptionsOnce ==
  \E c \in Calls, uid \in Users, type \in TypeInputs, sort \in SortInputs :
    /\ Arrives(c) /\ started = 0
    /\ started' = c
    /\ Subscriptions(c, uid, type, sort)
    /\ UNCHANGED <<store, baseActive, tasks, observed, catalog>>

SpecListing == InitListing /\ [][SubscriptionsOnce]_vars

(* -------------------------------------------------------------- scanFeeds *)
\* an exception that leaves the resolver
Escaped(message) == [kind |-> "exception", code |-> NULL, message |-> message]

ScanFeedsSuccess(feeds) == [kind |-> "success", code |-> NULL, feeds |-> feeds]

\* what a scanFeeds input may carry as opml and as url
OpmlInputs == {UNDEF, "", "<opml/>"}
ScanUrlInputs == {UNDEF, "", "A"}

\* parseOpml(opml) when it returns: nothing, or the outlines of the document
OpmlOutcomes ==
  {UNDEF, <<>>,
   <<[url |-> "A", title |-> "Feed A", type |-> UNDEF],
     [url |-> "B", title |-> "Feed B", type |-> "atom"]>>}

\* lines 422-426
OpmlFeeds(feeds) ==
  [i \in 1..Len(feeds) |->
     [url |-> feeds[i].url, title |-> feeds[i].title,
      type |-> IF Truthy(feeds[i].type) THEN feeds[i].type ELSE "rss"]]

\* axios.get(url) when it answers: the content-type header and, for a page, the
\* link[type="application/rss+xml"] elements of the document
Responses ==
  {[contentType |-> UNDEF, links |-> <<>>],
   [contentType |-> "application/rss+xml", links |-> <<>>],
   [contentType |-> "text/html; charset=utf-8", links |-> <<>>],
   [contentType |-> "text/html; charset=utf-8",
    links |-> <<[href |-> "A", title |-> NULL], [href |-> NULL, title |-> "Feed B"]>>]}

\* line 444: contentType?.includes('text/html')
IsHtml(contentType) ==
  Truthy(contentType) /\ contentType \in {"text/html", "text/html; charset=utf-8"}

\* lines 449-455: one candidate per link, those without a url dropped
LinkFeeds(links) ==
  LET feeds == [i \in 1..Len(links) |->
                  [url |-> IF Truthy(links[i].href) THEN links[i].href ELSE "",
                   title |-> IF Truthy(links[i].title) THEN links[i].title ELSE "",
                   type |-> "rss"]]
  IN SelectSeq(feeds, LAMBDA feed : Truthy(feed.url))

\* mutant: a url that serves no feed is reported as not found
ScanFeedResultNotFound(feed) ==
  IF feed = NoFeed THEN Failure(NOT_FOUND) ELSE ScanFeedsSuccess(<<feed>>)

\* lines 464-474: the result for the url of a feed; NoFeed is parseFeed's null
ScanFeedResult(feed) ==
  IF feed = NoFeed THEN Failure(BAD_REQUEST) ELSE ScanFeedsSuccess(<<feed>>)

\* lines 401-482: the whole resolver with every outcome of its collaborators;
\* the try block starts at line 438, below the track and parseOpml calls
ScanFeeds(c, opml, url) ==
  LET req == [op |-> "scanFeeds", pc |-> "done", opml |-> opml, url |-> url,
              contentType |-> "none", parsed |-> "none",
              threw |-> "none", result |-> NoResult]
      ends(r) == call' = [call EXCEPT ![c] = r]
  IN \/ \* analytics.track throws
        ends([req EXCEPT !.threw = "track failed", !.result = Escaped("track failed")])
     \/ /\ Truthy(opml)
        /\ \/ \E feeds \in OpmlOutcomes :
                ends([req EXCEPT
                  !.parsed = IF feeds = UNDEF THEN "nothing" ELSE "opml",
                  !.result = IF feeds = UNDEF THEN Failure(BAD_REQUEST)
                             ELSE ScanFeedsSuccess(OpmlFeeds(feeds))])
           \/ \* parseOpml throws
              ends([req EXCEPT !.threw = "opml failed",
                               !.result = Escaped("opml failed")])
     \/ /\ ~Truthy(opml) /\ ~Truthy(url)
        /\ ends([req EXCEPT !.result = Failure(BAD_REQUEST)])
     \/ /\ ~Truthy(opml) /\ Truthy(url)
        /\ \/ \* axios.get throws
              ends([req EXCEPT !.threw = "fetch failed",
                               !.result = Failure(BAD_REQUEST)])
           \/ \E response \in Responses :
                LET got == [req EXCEPT !.contentType = response.contentType]
                IN IF IsHtml(response.contentType)
                   THEN \/ ends([got EXCEPT !.parsed = "html",
                                    !.result = ScanFeedsSuccess(LinkFeeds(response.links))])
                        \/ \* parseHTML throws
                           ends([got EXCEPT !.threw = "html failed",
                                            !.result = Failure(BAD_REQUEST)])
                   ELSE \/ ends([got EXCEPT !.parsed = "feed",
                                    !.result = ScanFeedResult(FeedOf(url))])
                        \/ \* parseFeed resolves to null
                           ends([got EXCEPT !.parsed = "nothing",
                                            !.result = ScanFeedResult(NoFeed)])
                        \/ \* parseFeed throws
                           ends([got EXCEPT !.threw = "parse failed",
                                            !.result = Failure(BAD_REQUEST)])

\* SpecScan: scanFeeds requests, one after the other
InitScan ==
  /\ store = <<>>
  /\ baseActive = [uid \in Users |-> 0]
  /\ call = [c \in Calls |-> Idle]
  /\ started = 0
  /\ tasks = {}
  /\ observed = NoObservation
  /\ catalog = <<>>

ScanFeedsNext ==
  \E c \in Calls, opml \in OpmlInputs, url \in ScanUrlInputs :
    /\ Arrives(c)
    /\ started' = c
    /\ ScanFeeds(c, opml, url)
    /\ UNCHANGED <<store, baseActive, tasks, observed, catalog>>

SpecScan == InitScan /\ [][ScanFeedsNext]_vars

(* ================================================================ claims *)
\* the rows of the table that are RSS subscriptions of uid to url
RssRowsOf(tbl, uid, url) ==
  {i \in 1..Len(tbl) : tbl[i].user = uid /\ tbl[i].type = RSS /\ tbl[i].url = url}

ActiveRssOf(tbl, uid) ==
  baseActive[uid]
    + Cardinality({i \in 1..Len(tbl) :
                     tbl[i].user = uid /\ tbl[i].type = RSS /\ tbl[i].status = ACTIVE})

\* request c takes the step
Acts(c) == call'[c] # call[c]

\* no collaborator of request c (query, parser, scheduler, delegate) has failed
NoFault(c) == call[c].threw = "none"

(* C1: no step of a subscribe call, whether it inserts a row or re-activates one,
   takes a user's number of ACTIVE RSS subscriptions from within the quota of 150
   to beyond it. *)
C1_SubscribeKeepsQuota ==
  [][\A c \in Calls :
       (Acts(c) /\ call'[c].op = "subscribe"
          /\ \A uid \in Users : ActiveRssOf(store, uid) <= MAX_RSS_SUBSCRIPTIONS)
       => \A uid \in Users : ActiveRssOf(store', uid) <= MAX_RSS_SUBSCRIPTIONS]_vars

(* C2: when all requests issued so far are subscribe calls of one user to pairwise
   distinct URLs that had no row, and the user started with 150 - k ACTIVE RSS
   subscriptions, at most k of them return success, each success carries the row
   its insert returned, an empty insert result returns ExceededMaxSubscriptions,
   and every call whose feed parsed and whose collaborators did not fail returns
   success or ExceededMaxSubscriptions. *)
OnlyNewSubscribes(uid) ==
  /\ started >= 2
  /\ \A c \in 1..started :
       /\ call[c].op = "subscribe" /\ call[c].uid = uid /\ call[c].existing = NoRow
       /\ \A d \in 1..started : d # c => call[d].url # call[c].url
  /\ Len(store) = Cardinality({c \in 1..started : call[c].inserted = "row"})

C2_AtMostKSucceed ==
  \A uid \in Users :
    OnlyNewSubscribes(uid) =>
      /\ Cardinality({c \in 1..started : call[c].result.kind = "success"})
           <= MAX_RSS_SUBSCRIPTIONS - baseActive[uid]
      /\ \A c \in 1..started :
           /\ call[c].result.kind = "success" =>
                /\ call[c].inserted = "row"
                /\ call[c].result.row.id \in 1..Len(store)
                /\ call[c].result.row.user = uid
           /\ call[c].inserted = "empty" =>
                call[c].result = Failure(EXCEEDED_MAX_SUBSCRIPTIONS)
           /\ (call[c].pc = "done" /\ call[c].feed # NoFeed /\ NoFault(c)) =>
                \/ call[c].result.kind = "success"
                \/ call[c].result = Failure(EXCEEDED_MAX_SUBSCRIPTIONS)

C2_Witness ==
  /\ OnlyNewSubscribes("u1")
  /\ baseActive["u1"] = MAX_RSS_SUBSCRIPTIONS - 1
  /\ \E c, d \in 1..started :
       /\ call[c].result.kind = "success"
       /\ call[d].result = Failure(EXCEEDED_MAX_SUBSCRIPTIONS)
       /\ call[d].feed # NoFeed

(* C3: the table never holds two RSS rows of one user for one url. *)
C3_OneRowPerUserUrl ==
  \A uid \in Users, url \in Urls : Cardinality(RssRowsOf(store, uid, url)) <= 1

(* C4: a subscribe call that arrives when the caller's RSS subscription to the url
   is ACTIVE returns AlreadySubscribed in that step, and the step changes neither
   the table nor the fetch-schedule requests. *)
C4_AlreadySubscribed ==
  [][\A c \in Calls :
       (/\ call[c].pc = "idle" /\ call'[c].op = "subscribe"
        /\ call'[c].threw = "none"
        /\ RssRowsOf(store, call'[c].uid, call'[c].url) # {}
        /\ \A i \in RssRowsOf(store, call'[c].uid, call'[c].url) :
             store[i].status = ACTIVE)
       => /\ call'[c].pc = "done"
          /\ call'[c].result = Failure(ALREADY_SUBSCRIBED)
          /\ store' = store
          /\ tasks' = tasks]_vars

C4_Witness ==
  \E c \in Calls :
    /\ call[c].op = "subscribe"
    /\ call[c].result = Failure(ALREADY_SUBSCRIBED)
    /\ \E i \in RssRowsOf(store, call[c].uid, call[c].url) : store[i].status = ACTIVE
    /\ \A t \in tasks : t.call # c

(* C5: a subscribe call that found the caller's subscription UNSUBSCRIBED writes
   ACTIVE to that row, adds no row, leaves the row's lastFetchedAt and
   lastFetchedChecksum at the values the call found, and, when it returns
   success, returns that row with status ACTIVE and those values. *)
C5_Resubscribe ==
  [][\A c \in Calls :
       LET found == call[c].existing
       IN /\ (call[c].op = "subscribe" /\ call[c].pc = "save"
                /\ call'[c].pc = "enqueueResub")
             => /\ Len(store') = Len(store)
                /\ store'[found.id].status = ACTIVE
                /\ store'[found.id].lastFetchedAt = found.lastFetchedAt
                /\ store'[found.id].lastFetchedChecksum = found.lastFetchedChecksum
                /\ \A i \in 1..Len(store) : i # found.id => store'[i] = store[i]
          /\ (call[c].op = "subscribe" /\ call[c].pc = "enqueueResub"
                /\ call'[c].result.kind = "success")
             => /\ call'[c].result.row.id = found.id
                /\ call'[c].result.row.status = ACTIVE
                /\ call'[c].result.row.lastFetchedAt = found.lastFetchedAt
                /\ call'[c].result.row.lastFetchedChecksum = found.lastFetchedChecksum
                /\ Len(store') = Len(store)]_vars

C5_Witness ==
  \E c \in Calls :
    /\ call[c].op = "subscribe" /\ call[c].result.kind = "success"
    /\ call[c].existing.status = UNSUBSCRIBED
    /\ call[c].existing.lastFetchedAt = "t1"
    /\ store[call[c].existing.id].status = ACTIVE
    /\ store[call[c].existing.id].lastFetchedAt = "t1"
    /\ call[c].result.row.lastFetchedChecksum = "c0ffee"

(* C6: every row's status is ACTIVE or UNSUBSCRIBED in every state reached by
   subscribe, unsubscribe and updateSubscription requests. *)
C6_StatusIsTwoValued ==
  \A i \in 1..Len(store) : store[i].status \in {"ACTIVE", "UNSUBSCRIBED"}

C6_Witness ==
  \E c, d \in Calls :
    /\ c # d
    /\ call[c].op = "update" /\ call[c].result.kind = "success"
    /\ call[c].result.row.status = "UNSUBSCRIBED"
    /\ call[d].op = "subscribe" /\ call[d].result.kind = "success"
    /\ call[d].existing.id = call[c].result.row.id
    /\ store[call[d].existing.id].status = "ACTIVE"

(* C7: a subscribe call for a url without a row whose feed validation yields
   nothing or reports a 404 returns NotFound, and that step adds no row and no
   fetch-schedule request; a subscribe call that fails in any other way returns
   BadRequest. *)
C7_FeedNotFound ==
  /\ [][\A c \in Calls :
          (call[c].op = "subscribe" /\ call[c].pc = "parseFeed"
             /\ call'[c].pc = "done"
             /\ call'[c].threw \in {"none", "Status code 404"})
          => /\ call'[c].result = Failure("NOT_FOUND")
             /\ store' = store
             /\ tasks' = tasks]_vars
  /\ [](\A c \in Calls :
          /\ (call[c].op = "subscribe" /\ call[c].result.code = "NOT_FOUND")
             => /\ call[c].inserted = "none"
                /\ \A t \in tasks : t.call # c
          /\ (call[c].op = "subscribe"
                /\ call[c].threw \notin {"none", "Status code 404"})
             => call[c].result = Failure("BAD_REQUEST"))

C7_Witness ==
  \E c, d \in Calls :
    /\ call[c].op = "subscribe" /\ call[c].threw = "Status code 404"
    /\ call[c].result = Failure("NOT_FOUND")
    /\ call[d].op = "subscribe" /\ call[d].threw = "none" /\ call[d].existing = NoRow
    /\ call[d].feed = NoFeed /\ call[d].result = Failure("NOT_FOUND")
    /\ tasks = {}

(* ------------------------------------------- claims on updateSubscription *)
\* the updateSubscription request of SpecUpdate, the row it named before the
\* request, and that row now
LastUpdate == call[started]
RowBefore == observed.before[observed.input.id]
RowNow == store[observed.input.id]
UpdateSucceeded ==
  started >= 1 /\ LastUpdate.op = "update" /\ LastUpdate.result.kind = "success"

\* the column value an input value stands for
ColumnValue(f, v) ==
  IF f \in {"lastFetchedAt", "scheduledAt"}
  THEN (IF v = "2024-01-01" THEN "t1" ELSE "t2")
  ELSE v

(* C8 as stated: a successful updateSubscription sets every supplied field to the
   supplied value, empty strings and false included, and leaves every field the
   input does not supply, and every other row, unchanged. *)
C8_SuppliedFieldsWritten ==
  UpdateSucceeded =>
    /\ \A f \in UpdateFields :
         RowNow[f] = IF observed.input[f] # "undefined"
                     THEN ColumnValue(f, observed.input[f])
                     ELSE RowBefore[f]
    /\ \A f \in DOMAIN RowNow \ UpdateFields : RowNow[f] = RowBefore[f]
    /\ \A i \in 1..Len(store) : i # observed.input.id => store[i] = observed.before[i]
    /\ Len(store) = Len(observed.before)

(* C8 amended: a successful updateSubscription sets every field supplied with a
   value other than the empty string to the supplied value (false included), and
   leaves every field that is absent or supplied as the empty string, and every
   other row, unchanged. *)
C8_NonEmptyFieldsWritten ==
  UpdateSucceeded =>
    /\ \A f \in UpdateFields :
         RowNow[f] = IF observed.input[f] \notin {"undefined", ""}
                     THEN ColumnValue(f, observed.input[f])
                     ELSE RowBefore[f]
    /\ \A f \in DOMAIN RowNow \ UpdateFields : RowNow[f] = RowBefore[f]
    /\ \A i \in 1..Len(store) : i # observed.input.id => store[i] = observed.before[i]
    /\ Len(store) = Len(observed.before)
    /\ LastUpdate.result.row = RowNow

C8_Witness ==
  /\ UpdateSucceeded
  /\ observed.input.isPrivate = "false" /\ RowBefore.isPrivate # "false"
  /\ RowNow.isPrivate = "false"
  /\ observed.input.description = "" /\ RowNow.description = "about A"
  /\ RowNow.name = RowBefore.name /\ observed.input.name = "undefined"

(* C9: an updateSubscription request that names no row of the caller, or whose
   transaction fails, returns the one error code BadRequest, no success payload,
   and leaves the table as it was. *)
C9_UpdateFailsAsBadRequest ==
  (started >= 1 /\ LastUpdate.op = "update") =>
    LET id == observed.input.id
        owned == id \in 1..Len(observed.before)
                   /\ observed.before[id].user = observed.uid
    IN /\ (~owned \/ LastUpdate.threw # "none")
            => /\ LastUpdate.result = Failure("BAD_REQUEST")
               /\ store = observed.before
       /\ (owned /\ LastUpdate.threw = "none") => LastUpdate.result.kind = "success"

C9_Witness ==
  /\ started >= 1 /\ LastUpdate.op = "update"
  /\ observed.input.id \in 1..Len(store)
  /\ store[observed.input.id].user # observed.uid
  /\ observed.input.name = "renamed"
  /\ LastUpdate.result = Failure("BAD_REQUEST")
  /\ LastUpdate.threw = "EntityNotFoundError"

(* --------------------------------------------------- claims on unsubscribe *)
(* C10: an unsubscribe request that supplies an id resolves to the caller's row
   with that id, whatever name it carries, and to nothing when the caller has no
   such row; a request without an id resolves to a row of the caller with the
   given name, and to nothing when the caller has none. *)
C10_IdTakesPrecedence ==
  [][\A c \in Calls :
       (call[c].pc = "idle" /\ call'[c].op = "unsubscribe"
          /\ call'[c].threw = "none")
       => LET uid == call'[c].uid
              id == call'[c].subscriptionId
              name == call'[c].name
              target == call'[c].subscription
              missing == /\ target = NoRow
                         /\ call'[c].result = Failure("NOT_FOUND")
              named == {i \in 1..Len(store) :
                          store[i].user = uid /\ store[i].name = name}
          IN /\ id # 0 =>
                  IF id \in 1..Len(store) /\ store[id].user = uid
                  THEN target = store[id]
                  ELSE missing
             /\ (id = 0 /\ name # "undefined") =>
                  IF named # {}
                  THEN \E i \in named : target = store[i]
                  ELSE missing
             /\ target # NoRow => target.user = uid]_vars

C10_Witness ==
  \E c \in Calls :
    /\ call[c].op = "unsubscribe"
    /\ call[c].subscriptionId # 0 /\ call[c].name = "Feed B"
    /\ call[c].subscription.id = call[c].subscriptionId
    /\ call[c].subscription.name = "Feed A"
    /\ \E i \in 1..Len(store) :
         /\ store[i].user = call[c].uid /\ store[i].name = "Feed B"
         /\ i # call[c].subscriptionId

(* C11: an unsubscribe request that resolves to no row of the caller returns
   NotFound and its delegate never runs; one that resolves to a row runs the
   delegate exactly once by the time it is done, whatever the row's type and
   unsubscribe methods, and a successful request returns the row exactly as its
   query read it, before the delegate marked it. *)
C11_DelegatesOnce ==
  /\ [][\A c \in Calls :
          (call[c].pc = "idle" /\ call'[c].op = "unsubscribe"
             /\ call'[c].threw = "none")
          => LET uid == call'[c].uid
                 id == call'[c].subscriptionId
                 name == call'[c].name
                 matching == {i \in 1..Len(store) :
                                /\ store[i].user = uid
                                /\ IF id # 0 THEN i = id ELSE store[i].name = name}
             IN /\ call'[c].delegated = 0
                /\ store' = store
                /\ (id # 0 \/ name # "undefined") =>
                     IF matching = {}
                     THEN /\ call'[c].pc = "done"
                          /\ call'[c].result = Failure("NOT_FOUND")
                     ELSE /\ call'[c].pc = "delegate"
                          /\ \E i \in matching : call'[c].subscription = store[i]]_vars
  /\ [][\A c \in Calls :
          (call[c].op = "unsubscribe" /\ call[c].pc = "delegate" /\ Acts(c))
          => /\ call'[c].pc = "done"
             /\ call'[c].delegated = 1
             /\ call'[c].result.kind = "success" =>
                  call'[c].result.row = call[c].subscription]_vars
  /\ [](\A c \in Calls :
          call[c].op = "unsubscribe" =>
            /\ call[c].delegated =
                 IF call[c].pc = "done" /\ call[c].subscription # NoRow THEN 1 ELSE 0
            /\ call[c].result.code = "NOT_FOUND" =>
                 call[c].delegated = 0 /\ call[c].subscription = NoRow
            /\ call[c].result.kind = "success" => call[c].delegated = 1)

C11_Witness ==
  \E c, d \in Calls :
    /\ call[c].op = "unsubscribe" /\ call[c].result.kind = "success"
    /\ call[c].delegated = 1
    /\ NoUnsubscribeMethod(call[c].result.row)
    /\ call[c].result.row.status = "ACTIVE"
    /\ store[call[c].result.row.id].status = "UNSUBSCRIBED"
    /\ call[d].op = "unsubscribe" /\ call[d].result = Failure("NOT_FOUND")
    /\ call[d].delegated = 0 /\ call[d].threw = "none"

(* ------------------------------------------------------- claims on feeds *)
\* the feeds request of SpecFeeds: the page size it used, the offset it started at
FeedsCalls == {c \in Calls : call[c].op = "feeds"}
UsedFirst(c) == call[c].asked.limit - 1
UsedStart(c) == call[c].asked.offset

(* C12: for every requested page size the page size a feeds request uses lies in
   0..100, is 10 when the input sets none, and the search is asked for at least
   1 and at most 101 entries. *)
C12_PageSizeClamped ==
  \A c \in FeedsCalls :
    /\ UsedFirst(c) \in 0..100
    /\ call[c].first = <<>> => UsedFirst(c) = 10
    /\ call[c].asked.limit \in 1..101

(* C13: every page a feeds request returns holds at most as many edges as the
   page size used, the catalog entries from the start offset on, reports
   hasNextPage exactly when the catalog has entries beyond them, hasPreviousPage
   exactly when the start offset is positive, and an endCursor that is the start
   offset plus the number of edges. *)
C13_PageInfoMatchesCatalog ==
  \A c \in FeedsCalls :
    call[c].result.kind = "success" =>
      LET page == call[c].result
          start == UsedStart(c)
          n == Len(page.edges)
      IN /\ n <= UsedFirst(c)
         /\ \A i \in 1..n : page.edges[i].node = catalog[start + i]
         /\ page.pageInfo.hasNextPage <=> Len(catalog) > start + n
         /\ page.pageInfo.hasPreviousPage <=> start > 0
         /\ page.pageInfo.endCursor = ToString(start + n)

(* C14: a client that starts without a cursor and passes each endCursor on as
   the next after has, at every moment, received the catalog's entries in
   catalog order without gap or duplicate, holds the whole catalog once a page
   reports no next page, needs no more pages than the catalog has entries plus
   one, and does reach a page without a next page; 25 entries in pages of 10
   arrive as 10, 10 and 5 with the cursors 10 and 20. *)
C14_PagingVisitsAll ==
  /\ [](observed.visited = SubSeq(catalog, 1, Len(observed.visited)))
  /\ [](~observed.more => observed.visited = catalog)
  /\ [](observed.pages <= Len(catalog) + 1)
  /\ []((Len(catalog) = 25 /\ observed.first = <<10>>) =>
          /\ observed.pages = 1 =>
               observed.after = "10" /\ Len(observed.visited) = 10 /\ observed.more
          /\ observed.pages = 2 =>
               observed.after = "20" /\ Len(observed.visited) = 20 /\ observed.more
          /\ observed.pages = 3 => Len(observed.visited) = 25 /\ ~observed.more)
  /\ <>(~observed.more)

C14_Witness ==
  /\ Len(catalog) = 25 /\ observed.first = <<10>>
  /\ observed.pages = 3 /\ ~observed.more
  /\ observed.visited = catalog

(* ------------------------------------------------ claims on subscriptions *)
\* the subscriptions request of SpecListing that returned a listing
Listings ==
  {c \in Calls : call[c].op = "subscriptions" /\ call[c].result.kind = "success"}

(* C15: a listing holds, once each, exactly these rows of the table: with type
   NEWSLETTER the caller's ACTIVE newsletters, with type RSS all RSS rows of the
   caller whatever their status, without a type both of these; it never holds a
   row of another user. *)
C15_ListingFilters ==
  \A c \in Listings :
    LET listed == call[c].result.subscriptions
        uid == call[c].uid
        mine == {i \in 1..Len(store) : store[i].user = uid}
        newsletters == {i \in mine : store[i].type = "NEWSLETTER"
                                       /\ store[i].status = "ACTIVE"}
        feeds == {i \in mine : store[i].type = "RSS"}
        expected == CASE call[c].type = "NEWSLETTER" -> newsletters
                      [] call[c].type = "RSS" -> feeds
                      [] OTHER -> newsletters \cup feeds
    IN /\ {listed[i].id : i \in 1..Len(listed)} = expected
       /\ Len(listed) = Cardinality(expected)
       /\ \A i \in 1..Len(listed) :
            listed[i] = store[listed[i].id] /\ listed[i].user = uid

C15_Witness ==
  \E c \in Listings :
    /\ call[c].type = "undefined" /\ call[c].uid = "u1"
    /\ Len(store) = 2 /\ Len(call[c].result.subscriptions) = 1
    /\ store[1].user = "u1" /\ store[1].type = "NEWSLETTER"
    /\ store[1].status = "UNSUBSCRIBED"
    /\ store[2].user = "u1" /\ store[2].type = "RSS"
    /\ store[2].status = "UNSUBSCRIBED"
    /\ call[c].result.subscriptions[1].id = 2

(* C16: in a listing no UNSUBSCRIBED row comes before an ACTIVE row, whatever the
   sort; among rows of one status no row whose sort key (lastFetchedAt for
   UPDATED_TIME, createdAt otherwise) is null comes before a row that has one,
   ascending or descending; and rows that have one come in the requested
   direction, descending when none is requested. *)
C16_ListingOrder ==
  \A c \in Listings :
    LET listed == call[c].result.subscriptions
        key == IF call[c].sort.by = "UPDATED_TIME" THEN "lastFetchedAt" ELSE "createdAt"
    IN \A i, j \in 1..Len(listed) :
         i < j =>
           /\ ~(listed[i].status = "UNSUBSCRIBED" /\ listed[j].status = "ACTIVE")
           /\ listed[i].status = listed[j].status =>
                /\ ~(listed[i][key] = "null" /\ listed[j][key] # "null")
                /\ (listed[i][key] # "null" /\ listed[j][key] # "null") =>
                     IF call[c].sort.order = "ASCENDING"
                     THEN TimeRank(listed[i][key]) <= TimeRank(listed[j][key])
                     ELSE TimeRank(listed[i][key]) >= TimeRank(listed[j][key])

C16_Witness ==
  \E c \in Listings :
    LET listed == call[c].result.subscriptions
    IN /\ call[c].sort.by = "UPDATED_TIME" /\ call[c].sort.order = "undefined"
       /\ Len(listed) = 2
       /\ listed[1].status = "ACTIVE" /\ listed[2].status = "ACTIVE"
       /\ listed[1].lastFetchedAt = "t1" /\ listed[2].lastFetchedAt = "null"
       /\ listed[1].id = 2

(* ---------------------------------------------------- claims on scanFeeds *)
\* the scanFeeds requests whose fetch answered with something other than a page and
\* whose body parsed as no feed
ScansOfNoFeed ==
  {c \in Calls : /\ call[c].op = "scanFeeds"
                 /\ call[c].contentType \notin {"none", "text/html",
                                                 "text/html; charset=utf-8"}
                 /\ call[c].parsed = "nothing"}

(* C17 as stated: a scanFeeds request whose response is not HTML and whose body
   parses as no feed returns NotFound, and a request returns the bad-input code
   only when it carries neither opml nor url or when its OPML document is
   unusable. *)
C17_NoFeedIsNotFound ==
  /\ \A c \in ScansOfNoFeed : call[c].result = Failure("NOT_FOUND")
  /\ \A c \in Calls :
       (call[c].op = "scanFeeds" /\ call[c].result = Failure("BAD_REQUEST")
          /\ call[c].threw = "none")
       => \/ ~Truthy(call[c].opml) /\ ~Truthy(call[c].url)
          \/ Truthy(call[c].opml) /\ call[c].parsed = "nothing"

(* C17 amended: a scanFeeds request whose response is not HTML and whose body
   parses as no feed returns BadRequest, the code it also returns for a request
   without opml and url and for an unusable OPML document; no scanFeeds request
   returns NotFound. *)
C17_NoFeedIsBadRequest ==
  /\ \A c \in ScansOfNoFeed : call[c].result = Failure("BAD_REQUEST")
  /\ \A c \in Calls :
       call[c].op = "scanFeeds" =>
         /\ call[c].result.code # "NOT_FOUND"
         /\ (~Truthy(call[c].opml) /\ ~Truthy(call[c].url) /\ call[c].threw = "none")
              => call[c].result = Failure("BAD_REQUEST")
         /\ (Truthy(call[c].opml) /\ call[c].parsed = "nothing")
              => call[c].result = Failure("BAD_REQUEST")

C17_Witness ==
  \E c \in ScansOfNoFeed :
    /\ call[c].url = "A" /\ call[c].contentType = "application/rss+xml"
    /\ call[c].threw = "none"
    /\ call[c].result = Failure("BAD_REQUEST")

(* C18: every request that has ended has ended in a success result without an
   error code or in an error result with a code of its operation, and never in
   an exception that left the operation. *)
C18_NoExceptionEscapes ==
  \A c \in Calls :
    call[c].pc = "done" =>
      \/ call[c].result.kind = "success" /\ call[c].result.code = "null"
      \/ /\ call[c].result.kind = "error"
         /\ call[c].result.code \in
              CASE call[c].op = "subscribe" ->
                     {"BAD_REQUEST", "NOT_FOUND", "ALREADY_SUBSCRIBED",
                      "EXCEEDED_MAX_SUBSCRIPTIONS"}
                [] call[c].op = "unsubscribe" -> {"BAD_REQUEST", "NOT_FOUND"}
                [] OTHER -> {"BAD_REQUEST"}

(* ------------------------------------------- claims on the fetch schedule *)
\* the fetch-schedule requests that request c has delivered
TasksOf(c) == {t \in tasks : t.call = c}

(* C19: a subscribe call that has returned success has delivered exactly one
   fetch-schedule request, for the caller and the id of the row it returns; the
   request of a re-activation carries the lastFetchedAt and checksum the
   re-activated row kept, the request of a new subscription carries null for
   both; a request is delivered only by a call that has written its row, in the
   step in which it returns success; a subscribe call that has returned a code
   other than BadRequest has delivered none. *)
C19_FetchScheduled ==
  /\ [](\A c \in Calls :
          call[c].op = "subscribe" =>
            /\ call[c].result.kind = "success" =>
                 /\ Cardinality(TasksOf(c)) = 1
                 /\ \A t \in TasksOf(c) :
                      /\ t.subscriptionId = call[c].result.row.id
                      /\ t.userId = call[c].uid
                      /\ IF call[c].existing # NoRow
                         THEN /\ t.fetchedDate = call[c].existing.lastFetchedAt
                              /\ t.checksum = call[c].existing.lastFetchedChecksum
                              /\ t.fetchedDate = call[c].result.row.lastFetchedAt
                              /\ t.checksum = call[c].result.row.lastFetchedChecksum
                         ELSE t.fetchedDate = "null" /\ t.checksum = "null"
            /\ (call[c].result.kind = "error" /\ call[c].result.code # "BAD_REQUEST")
                 => TasksOf(c) = {})
  /\ [][tasks' # tasks =>
          \E c \in Calls :
            /\ call[c].op = "subscribe"
            /\ call[c].pc \in {"enqueueResub", "enqueueNew"}
            /\ call[c].subscription.id \in 1..Len(store)
            /\ call[c].subscription.status = "ACTIVE"
            /\ call[c].pc = "enqueueResub" =>
                 call[c].subscription.id = call[c].existing.id
            /\ call[c].pc = "enqueueNew" => call[c].inserted = "row"
            /\ call'[c].result = Success(call[c].subscription)
            /\ \E t \in tasks' : t.call = c /\ tasks' = tasks \cup {t}
            /\ TasksOf(c) = {}
            /\ store' = store]_vars

C19_Witness ==
  \E c, d \in Calls :
    /\ call[c].op = "subscribe" /\ call[c].result.kind = "success"
    /\ call[c].existing.status = "UNSUBSCRIBED"
    /\ \E t \in TasksOf(c) : t.fetchedDate = "t1" /\ t.checksum = "c0ffee"
    /\ call[d].op = "subscribe" /\ call[d].result.kind = "success"
    /\ call[d].existing = NoRow
    /\ \E t \in TasksOf(d) :
         /\ t.fetchedDate = "null" /\ t.checksum = "null"
         /\ t.subscriptionId = call[d].result.row.id
    /\ Cardinality(tasks) = 2

(* C20: a subscribe call whose fetch-schedule request fails returns BadRequest
   and has delivered no request; the failing step leaves the table, with the row
   the call inserted or re-activated, as it is; and while that row is ACTIVE a
   later subscribe call of the same user for the same url returns
   AlreadySubscribed in its first step, changing neither the table nor the
   delivered requests. *)
C20_EnqueueFailureKeepsRow ==
  /\ [](\A c \in Calls :
          (call[c].op = "subscribe" /\ call[c].threw = "enqueue failed") =>
            /\ call[c].result = Failure("BAD_REQUEST")
            /\ TasksOf(c) = {}
            /\ call[c].subscription.id \in 1..Len(store))
  /\ [][\A c \in Calls :
          (call[c].op = "subscribe" /\ call'[c].threw = "enqueue failed"
             /\ call[c].threw = "none")
          => /\ store' = store
             /\ tasks' = tasks
             /\ call'[c].pc = "done"]_vars
  /\ [][\A c, d \in Calls :
          (/\ call[c].op = "subscribe" /\ call[c].threw = "enqueue failed"
           /\ store[call[c].subscription.id].status = "ACTIVE"
           /\ call[d].pc = "idle" /\ call'[d].op = "subscribe"
           /\ call'[d].threw = "none"
           /\ call'[d].uid = call[c].uid /\ call'[d].url = call[c].url)
          => /\ call'[d].result = Failure("ALREADY_SUBSCRIBED")
             /\ call'[d].pc = "done"
             /\ store' = store
             /\ tasks' = tasks]_vars

(* ------------------------------------------ claims on concurrent requests *)
(* C21: an updateSubscription request that names a row of another user leaves
   the table, that row included, exactly as it met it, and returns the one code
   BadRequest with no row in its result. *)
C21_ForeignRowUntouched ==
  (started >= 1 /\ LastUpdate.op = "update"
     /\ observed.input.id \in 1..Len(observed.before)
     /\ observed.before[observed.input.id].user # observed.uid)
  => /\ store = observed.before
     /\ LastUpdate.result.kind = "error"
     /\ LastUpdate.result.code = "BAD_REQUEST"
     /\ LastUpdate.result.row = NoRow
     /\ LastUpdate.subscription = NoRow

C21_Witness ==
  /\ started >= 1 /\ LastUpdate.op = "update"
  /\ observed.uid = "u1" /\ observed.input.id = 2
  /\ observed.input.status = "UNSUBSCRIBED" /\ observed.input.isPrivate = "true"
  /\ Len(store) = 2 /\ store[2].user = "u2"
  /\ store[2].status = "ACTIVE" /\ store[2].isPrivate = "false"
  /\ LastUpdate.threw = "EntityNotFoundError"
  /\ LastUpdate.result = Failure("BAD_REQUEST")

\* the columns of a subscription other than its status
OtherColumns == {"user", "type", "url", "name", "description", "lastFetchedAt",
                 "lastFetchedChecksum", "scheduledAt", "autoAddToLibrary",
                 "isPrivate"}

(* C22: the step in which a subscribe call re-activates the row it found changes
   the row's status and nothing else: every other column keeps the value the
   table holds when the step is taken, also when another request wrote the row
   after the subscribe call looked it up. *)
C22_ReactivationWritesStatusOnly ==
  [][\A c \in Calls :
       (call[c].op = "subscribe" /\ call[c].pc = "save"
          /\ call'[c].pc = "enqueueResub")
       => LET id == call[c].existing.id
          IN /\ store'[id].status = "ACTIVE"
             /\ \A f \in OtherColumns : store'[id][f] = store[id][f]]_vars

(* C23: when a subscribe call of a user for a url has returned success and the
   row it returned is ACTIVE, the next subscribe call of that user for that url
   returns AlreadySubscribed in its first step and the table is left as it is,
   whatever url the feed names as its own. *)
C23_SecondSubscribeRefused ==
  [][\A c, d \in Calls :
       (/\ call[c].op = "subscribe" /\ call[c].result.kind = "success"
        /\ store[call[c].result.row.id].status = "ACTIVE"
        /\ d = c + 1
        /\ call[d].pc = "idle" /\ call'[d].op = "subscribe"
        /\ call'[d].threw = "none"
        /\ call'[d].uid = call[c].uid /\ call'[d].url = call[c].url)
       => /\ call'[d].result = Failure("ALREADY_SUBSCRIBED")
          /\ call'[d].pc = "done"
          /\ store' = store]_vars

====
